---- MODULE Spec2Model ----
(***************************************************************************)
(* Model of temp/convert_to_pdf.py: the pipeline that extracts the mermaid *)
(* blocks of a markdown document, writes each body to /tmp/diagram_k.mmd,  *)
(* renders each file with the external mmdc tool, and replaces the blocks  *)
(* by image references.                                                    *)
(*                                                                         *)
(* A text is a sequence of characters.  The characters of a document are   *)
(* the backtick, the newline, the word "mermaid" (one unit: no proper part *)
(* of it matters to the pattern) and the ordinary letters "a" and "b".     *)
(* The texts the script formats itself (file names, image references) are  *)
(* sequences of their literal parts.                                       *)
(*                                                                         *)
(* Environment assumptions: the filesystem calls of the script (open,      *)
(* read, write) succeed; the external renderer is an oracle that answers   *)
(* each invocation with one of four outcomes.                              *)
(***************************************************************************)
EXTENDS Integers, Sequences, FiniteSets, TLC

\* ------------------------------------------------------------------ bounds
MaxPieces == 3
MaxImages == 3

\* -------------------------------------------------------------- characters
\* the backtick character, by name
BT == "backtick"
NL == "\n"
MM == "mermaid"

OPEN == <<BT, BT, BT, MM, NL>>
CLOSE == <<NL, BT, BT, BT>>

\* str.strip() strips whitespace; the newline is the whitespace of the alphabet
WS == {NL}

\* ------------------------------------------------------- string primitives
Max(S) == CHOOSE x \in S : \A y \in S : x >= y

\* pat occurs in s at position p (1-based)
IsAt(s, pat, p) ==
  /\ p >= 1
  /\ p + Len(pat) - 1 <= Len(s)
  /\ \A k \in 1..Len(pat) : s[p + k - 1] = pat[k]

\* position of the first occurrence of pat in s at or after from; 0 if none
RECURSIVE Find(_, _, _)
Find(s, pat, from) ==
  IF from + Len(pat) - 1 > Len(s) THEN 0
  ELSE IF IsAt(s, pat, from) THEN from
       ELSE Find(s, pat, from + 1)

\* position of the last occurrence of pat in s; 0 if none
RFind(s, pat) ==
  LET ps == {p \in 1..(Len(s) - Len(pat) + 1) : IsAt(s, pat, p)}
  IN  IF ps = {} THEN 0 ELSE Max(ps)

Slice(s, a, b) == IF a > b THEN <<>> ELSE SubSeq(s, a, b)

RECURSIVE ReplaceAll(_, _, _)
ReplaceAll(s, old, new) ==
  LET p == Find(s, old, 1)
  IN  IF p = 0 THEN s
      ELSE Slice(s, 1, p - 1) \o new
             \o ReplaceAll(Slice(s, p + Len(old), Len(s)), old, new)

ReplaceLast(s, old, new) ==
  LET p == RFind(s, old)
  IN  IF p = 0 THEN s
      ELSE Slice(s, 1, p - 1) \o new \o Slice(s, p + Len(old), Len(s))

\* str.replace(old, new, 1): the first occurrence only
ReplaceFirst(s, old, new) ==
  LET p == Find(s, old, 1)
  IN  IF p = 0 THEN s
      ELSE Slice(s, 1, p - 1) \o new \o Slice(s, p + Len(old), Len(s))

RECURSIVE LStrip(_)
LStrip(s) == IF s # <<>> /\ Head(s) \in WS THEN LStrip(Tail(s)) ELSE s

RECURSIVE RStrip(_)
RStrip(s) ==
  IF s # <<>> /\ s[Len(s)] \in WS THEN RStrip(Slice(s, 1, Len(s) - 1)) ELSE s

\* str.rstrip() in the place of str.strip()
StripRightOnly(s) == RStrip(s)

\* str.strip()
Strip(s) == RStrip(LStrip(s))

\* --------------------------------------------------------------- extractor
\* The matches of the pattern of line 14 (DOTALL) that re.findall scans,
\* left to right and non-overlapping, from position pos.  A match starts at
\* the leftmost OPEN that has a CLOSE at or after its end, and its lazy body
\* ends before the first such CLOSE.
RECURSIVE MatchesFrom(_, _)
MatchesFrom(s, pos) ==
  LET p == Find(s, OPEN, pos)
  IN  IF p = 0 THEN <<>>
      ELSE LET c == Find(s, CLOSE, p + Len(OPEN))
           IN  IF c = 0 THEN MatchesFrom(s, p + 1)
               ELSE <<[start |-> p, close |-> c]>>
                      \o MatchesFrom(s, c + Len(CLOSE))

Matches(s) == MatchesFrom(s, 1)

BodyOf(s, m) == Slice(s, m.start + Len(OPEN), m.close - 1)

extract_mermaid_diagrams(markdown_content) ==
  LET ms == Matches(markdown_content)
  IN  [k \in 1..Len(ms) |-> BodyOf(markdown_content, ms[k])]

\* ------------------------------------------------------------------ state
VARIABLES
  fs,               \* the files on disk: path -> content
  pc,               \* position of the script
  run,              \* 0: the substituter called on its own; 1, 2: runs of main
  content,          \* main: the text read from INPUT_FILE
  diagrams,         \* main: the extracted bodies
  diagram_files,    \* create_mermaid_files / main: the paths written so far
  image_files,      \* convert_diagrams_to_images / main: the paths recorded
  invoked,          \* the renderer invocations of this run, by input path
  outcomes,         \* the outcome of the invocation of each diagram
  cem_original,     \* create_enhanced_markdown: original_content
  cem_images,       \* create_enhanced_markdown: image_files
  cem_diagrams,     \* create_enhanced_markdown: diagrams
  cem_enhanced,     \* create_enhanced_markdown: enhanced_content
  cem_i,            \* create_enhanced_markdown: the loop index i
  enhanced_content, \* main: the text returned by create_enhanced_markdown
  first_output      \* the enhanced file of run 1, kept to compare with run 2

vars == <<fs, pc, run, content, diagrams, diagram_files, image_files, invoked,
          outcomes, cem_original, cem_images, cem_diagrams, cem_enhanced,
          cem_i, enhanced_content, first_output>>

\* ------------------------------------------------------------- formatting
INPUT_FILE == <<"/home/reece/castbot/00-DEL-HigherEd.md">>
ENHANCED_FILE == <<"/tmp/00-DEL-HigherEd-enhanced.md">>

\* a name that is fresh in every run, as tempfile would give
MmdNameFresh(i) == <<"/tmp/diagram_", ToString(i + 1), "_", ToString(run), ".mmd">>

\* f"/tmp/diagram_{i+1}.mmd", i the 0-based index of enumerate
MmdName(i) == <<"/tmp/diagram_", ToString(i + 1), ".mmd">>

\* mmd_file.replace('.mmd', '.png')
PngName(mmd_file) ==
  [k \in 1..Len(mmd_file) |-> IF mmd_file[k] = ".mmd" THEN ".png" ELSE mmd_file[k]]

\* f"```mermaid\n{diagram}\n```"
MermaidBlock(diagram) == OPEN \o diagram \o CLOSE

\* f"![Diagram {i+1}]({image_files[i]})", img the element image_files[i]
ImageRef(i, img) == <<"![Diagram ", ToString(i + 1), "](">> \o img \o <<")">>

\* what mmdc leaves in the output file when it exits with status zero
Rendering(body) == <<"PNG of">> \o body

\* ---------------------------------------------------------------- inputs
BLOCKA == MermaidBlock(<<"a">>)
BLOCKB == MermaidBlock(<<NL, "b">>)
PieceSet == {OPEN, CLOSE, <<NL>>, <<BT>>, <<"a">>, BLOCKA, BLOCKB}

RECURSIVE Flatten(_)
Flatten(ps) == IF ps = <<>> THEN <<>> ELSE Head(ps) \o Flatten(Tail(ps))

Docs == {Flatten(ps) : ps \in UNION {[1..k -> PieceSet] : k \in 0..MaxPieces}}

ImagePaths == {PngName(MmdName(0)), PngName(MmdName(1))}
ImageLists == UNION {[1..k -> ImagePaths] : k \in 0..MaxImages}

\* the results of one renderer invocation: exit status zero, non-zero exit
\* status, subprocess.TimeoutExpired, any other exception
Outcomes == {"ok", "nonzero", "timeout", "error"}

mainLocals == <<content, diagrams, diagram_files, image_files, enhanced_content>>
cemLocals == <<cem_original, cem_images, cem_diagrams, cem_enhanced, cem_i>>

Write(files, path, text) == (path :> text) @@ files

\* main started on a document, the scratch directory empty
Init ==
  /\ \E d \in Docs : fs = (INPUT_FILE :> d)
  /\ pc = "read"
  /\ run = 1
  /\ content = <<>>
  /\ diagrams = <<>>
  /\ diagram_files = <<>>
  /\ image_files = <<>>
  /\ invoked = <<>>
  /\ outcomes = <<>>
  /\ cem_original = <<>>
  /\ cem_images = <<>>
  /\ cem_diagrams = <<>>
  /\ cem_enhanced = <<>>
  /\ cem_i = 0
  /\ enhanced_content = <<>>
  /\ first_output = <<>>

\* ------------------------------------------------------------------- main
\* lines 68-71
ReadInput ==
  /\ pc = "read"
  /\ content' = fs[INPUT_FILE]
  /\ pc' = "extract"
  /\ UNCHANGED <<fs, run, diagrams, diagram_files, image_files, invoked,
                 outcomes, cemLocals, enhanced_content, first_output>>

\* line 74
Extract ==
  /\ pc = "extract"
  /\ diagrams' = extract_mermaid_diagrams(content)
  /\ pc' = "materialize"
  /\ UNCHANGED <<fs, run, content, diagram_files, image_files, invoked,
                 outcomes, cemLocals, enhanced_content, first_output>>

\* create_mermaid_files, one iteration of the loop of lines 21-25
MaterializeIter ==
  /\ pc = "materialize"
  /\ Len(diagram_files) < Len(diagrams)
  /\ LET i == Len(diagram_files)
         filename == MmdName(i)
     IN  /\ fs' = Write(fs, filename, Strip(diagrams[i + 1]))
         /\ diagram_files' = Append(diagram_files, filename)
  /\ UNCHANGED <<pc, run, content, diagrams, image_files, invoked, outcomes,
                 cemLocals, enhanced_content, first_output>>

\* create_mermaid_files returns (line 26), main goes on to line 81
MaterializeReturn ==
  /\ pc = "materialize"
  /\ Len(diagram_files) = Len(diagrams)
  /\ pc' = "render"
  /\ UNCHANGED <<fs, run, mainLocals, invoked, outcomes, cemLocals, first_output>>

\* records the image whenever no exception was raised
RecordedUnlessException(images, png_file, outcome) ==
  IF outcome \in {"ok", "nonzero"} THEN Append(images, png_file) ELSE images

\* records the image whatever the outcome
RecordedAlways(images, png_file, outcome) == Append(images, png_file)

\* lines 40-49: what the loop body records for one invocation
Recorded(images, png_file, outcome) ==
  IF outcome = "ok" THEN Append(images, png_file) ELSE images

\* an except clause that re-raises: the exception leaves the loop and main
RenderIterAbort ==
  /\ pc = "render"
  /\ Len(invoked) < Len(diagram_files)
  /\ LET k == Len(invoked) + 1
         mmd_file == diagram_files[k]
         png_file == PngName(mmd_file)
     IN  \E o \in (IF run = 1 THEN Outcomes ELSE {outcomes[k]}) :
           /\ invoked' = Append(invoked, mmd_file)
           /\ outcomes' = IF run = 1 THEN Append(outcomes, o) ELSE outcomes
           /\ image_files' = Recorded(image_files, png_file, o)
           /\ fs' = IF o = "ok" THEN Write(fs, png_file, Rendering(fs[mmd_file]))
                    ELSE fs
           /\ pc' = IF o \in {"timeout", "error"} THEN "aborted" ELSE pc
  /\ UNCHANGED <<run, content, diagrams, diagram_files, cemLocals,
                 enhanced_content, first_output>>

\* convert_diagrams_to_images, one iteration of the loop of lines 31-49.
\* Run 2 repeats the outcomes of run 1.
RenderIter ==
  /\ pc = "render"
  /\ Len(invoked) < Len(diagram_files)
  /\ LET k == Len(invoked) + 1
         mmd_file == diagram_files[k]
         png_file == PngName(mmd_file)
     IN  \E o \in (IF run = 1 THEN Outcomes ELSE {outcomes[k]}) :
           /\ invoked' = Append(invoked, mmd_file)
           /\ outcomes' = IF run = 1 THEN Append(outcomes, o) ELSE outcomes
           /\ image_files' = Recorded(image_files, png_file, o)
           /\ fs' = IF o = "ok" THEN Write(fs, png_file, Rendering(fs[mmd_file]))
                    ELSE fs
  /\ UNCHANGED <<pc, run, content, diagrams, diagram_files, cemLocals,
                 enhanced_content, first_output>>

\* convert_diagrams_to_images returns (line 51), main goes on to line 84
RenderReturn ==
  /\ pc = "render"
  /\ Len(invoked) = Len(diagram_files)
  /\ pc' = "call_cem"
  /\ UNCHANGED <<fs, run, mainLocals, invoked, outcomes, cemLocals, first_output>>

\* line 84: the call
CallSubstituter ==
  /\ pc = "call_cem"
  /\ cem_original' = content
  /\ cem_images' = image_files
  /\ pc' = "cem_entry"
  /\ UNCHANGED <<fs, run, mainLocals, invoked, outcomes, cem_diagrams,
                 cem_enhanced, cem_i, first_output>>

\* ------------------------------------------------ create_enhanced_markdown
\* lines 55-56
CemEntry ==
  /\ pc = "cem_entry"
  /\ cem_diagrams' = extract_mermaid_diagrams(cem_original)
  /\ cem_enhanced' = cem_original
  /\ cem_i' = 0
  /\ pc' = "cem_loop"
  /\ UNCHANGED <<fs, run, mainLocals, invoked, outcomes, cem_original,
                 cem_images, first_output>>

\* the guard off by one: the last image is never used
SubstStepOffByOne(enhanced, i, diagram, images) ==
  IF i + 1 < Len(images)
  THEN ReplaceFirst(enhanced, MermaidBlock(diagram), ImageRef(i, images[i + 1]))
  ELSE enhanced

\* lines 59-62: the body of the loop for index i
SubstStep(enhanced, i, diagram, images) ==
  IF i < Len(images)
  THEN ReplaceFirst(enhanced, MermaidBlock(diagram), ImageRef(i, images[i + 1]))
  ELSE enhanced

\* one iteration of the loop of lines 58-62
CemIter ==
  /\ pc = "cem_loop"
  /\ cem_i < Len(cem_diagrams)
  /\ cem_enhanced' = SubstStep(cem_enhanced, cem_i, cem_diagrams[cem_i + 1], cem_images)
  /\ cem_i' = cem_i + 1
  /\ UNCHANGED <<fs, pc, run, mainLocals, invoked, outcomes, cem_original,
                 cem_images, cem_diagrams, first_output>>

\* line 64, and the assignment of line 84
CemReturn ==
  /\ pc = "cem_loop"
  /\ cem_i = Len(cem_diagrams)
  /\ enhanced_content' = cem_enhanced
  /\ pc' = IF run = 0 THEN "returned" ELSE "save"
  /\ UNCHANGED <<fs, run, content, diagrams, diagram_files, image_files,
                 invoked, outcomes, cemLocals, first_output>>

\* lines 87-89
SaveEnhanced ==
  /\ pc = "save"
  /\ fs' = Write(fs, ENHANCED_FILE, enhanced_content)
  /\ pc' = "done"
  /\ UNCHANGED <<run, mainLocals, invoked, outcomes, cemLocals, first_output>>

\* The script is run again on the same input: the scratch directory is
\* emptied first, and the renderer will repeat its outcomes.
RunAgain ==
  /\ pc = "done"
  /\ run = 1
  /\ run' = 2
  /\ first_output' = fs[ENHANCED_FILE]
  /\ fs' = (INPUT_FILE :> fs[INPUT_FILE])
  /\ pc' = "read"
  /\ content' = <<>>
  /\ diagrams' = <<>>
  /\ diagram_files' = <<>>
  /\ image_files' = <<>>
  /\ invoked' = <<>>
  /\ cem_original' = <<>>
  /\ cem_images' = <<>>
  /\ cem_diagrams' = <<>>
  /\ cem_enhanced' = <<>>
  /\ cem_i' = 0
  /\ enhanced_content' = <<>>
  /\ UNCHANGED outcomes

Next ==
  \/ ReadInput
  \/ Extract
  \/ MaterializeIter
  \/ MaterializeReturn
  \/ RenderIter
  \/ RenderReturn
  \/ CallSubstituter
  \/ CemEntry
  \/ CemIter
  \/ CemReturn
  \/ SaveEnhanced
  \/ RunAgain

Spec == Init /\ [][Next]_vars

\* ------------------------------------------- the substituter on its own
\* create_enhanced_markdown called with a document and any list of images
InitSub ==
  /\ fs = <<>>
  /\ pc = "cem_entry"
  /\ run = 0
  /\ content = <<>>
  /\ diagrams = <<>>
  /\ diagram_files = <<>>
  /\ image_files = <<>>
  /\ invoked = <<>>
  /\ outcomes = <<>>
  /\ cem_original \in Docs
  /\ cem_images \in ImageLists
  /\ cem_diagrams = <<>>
  /\ cem_enhanced = <<>>
  /\ cem_i = 0
  /\ enhanced_content = <<>>
  /\ first_output = <<>>

NextSub ==
  \/ CemEntry
  \/ CemIter
  \/ CemReturn

SpecSub == InitSub /\ [][NextSub]_vars

\* ================================================================ claims
\* ------------------------------------------------------- what claims say
\* the path of the image with ordinal k (1-based), and of its source file
OrdinalImage(k) == <<"/tmp/diagram_", ToString(k), ".png">>
OrdinalSource(k) == <<"/tmp/diagram_", ToString(k), ".mmd">>

\* the image reference of the diagram with ordinal k to an image path
RefText(k, path) == <<"![Diagram ", ToString(k), "](">> \o path \o <<")">>

\* the k-th diagram block of a text, fences included
BlockText(text, k) ==
  LET m == Matches(text)[k] IN Slice(text, m.start, m.close + Len(CLOSE) - 1)

\* the text with its k-th diagram block exchanged for items[k], for every k
RECURSIVE AssembleFrom(_, _, _, _, _)
AssembleFrom(text, ms, items, k, pos) ==
  IF k > Len(ms) THEN Slice(text, pos, Len(text))
  ELSE Slice(text, pos, ms[k].start - 1) \o items[k]
         \o AssembleFrom(text, ms, items, k + 1, ms[k].close + Len(CLOSE))

Assembled(text, items) == AssembleFrom(text, Matches(text), items, 1, 1)

\* how far the start of block k has moved once blocks 1..k-1 are exchanged
RECURSIVE Shift(_, _, _)
Shift(ms, items, k) ==
  IF k <= 1 THEN 0
  ELSE Shift(ms, items, k - 1) + Len(items[k - 1])
         - (ms[k - 1].close + Len(CLOSE) - ms[k - 1].start)

\* t is s without its leading and trailing whitespace
IsStripped(s, t) ==
  LET a == CHOOSE n \in 0..Len(s) :
             /\ \A k \in 1..n : s[k] \in WS
             /\ n = Len(s) \/ s[n + 1] \notin WS
      b == CHOOSE n \in 0..(Len(s) - a) :
             /\ \A k \in (Len(s) - n + 1)..Len(s) : s[k] \in WS
             /\ n = Len(s) - a \/ s[Len(s) - n] \notin WS
  IN  t = Slice(s, a + 1, Len(s) - b)

Doc == fs[INPUT_FILE]
NDiagrams == Len(Matches(Doc))
AfterRender == run >= 1 /\ pc \in {"call_cem", "cem_entry", "cem_loop", "save", "done"}
AfterMaterialize == AfterRender \/ (run >= 1 /\ pc = "render")

\* C1: at the end of a run, a diagram block is replaced by an image
\* reference if and only if the render invocation of that very diagram
\* succeeded; the block of a diagram whose render did not succeed is intact.
C1_ReplacedIffOwnRenderSucceeded ==
  pc = "done" =>
    \E f \in [1..NDiagrams -> 1..NDiagrams] :
      fs[ENHANCED_FILE] =
        Assembled(Doc, [k \in 1..NDiagrams |->
                          IF outcomes[k] = "ok"
                          THEN RefText(k, OrdinalImage(f[k]))
                          ELSE BlockText(Doc, k)])

\* C2: at the end of a run, every block that is replaced by an image
\* reference is replaced by the reference to the image of its own ordinal.
C2_OrdinalCorrespondence ==
  pc = "done" =>
    \E S \in SUBSET (1..NDiagrams) :
      fs[ENHANCED_FILE] =
        Assembled(Doc, [k \in 1..NDiagrams |->
                          IF k \in S THEN RefText(k, OrdinalImage(k))
                          ELSE BlockText(Doc, k)])

\* C3: if every render invocation succeeded, the enhanced document is the
\* input with each of its n diagram blocks exchanged, in place and in order,
\* for the reference to the image of the same ordinal, and no diagram block
\* is left in it.
C3_AllSucceed ==
  (pc = "done" /\ \A k \in 1..NDiagrams : outcomes[k] = "ok") =>
    /\ Len(image_files) = NDiagrams
    /\ fs[ENHANCED_FILE] =
         Assembled(Doc, [k \in 1..NDiagrams |-> RefText(k, OrdinalImage(k))])
    /\ extract_mermaid_diagrams(fs[ENHANCED_FILE]) = <<>>

C3_Witness ==
  /\ pc = "done"
  /\ NDiagrams >= 2
  /\ \A k \in 1..NDiagrams : outcomes[k] = "ok"
  /\ BlockText(Doc, 1) = BlockText(Doc, 2)

\* C4: when the document has no diagram block, or every render invocation
\* failed, the sequence of images is empty; and whenever it is empty the
\* enhanced document written is the input document, character for character.
C4_NoImagesIdentity ==
  pc = "done" =>
    /\ (\A k \in 1..NDiagrams : outcomes[k] # "ok") => image_files = <<>>
    /\ NDiagrams = 0 => diagrams = <<>>
    /\ image_files = <<>> => fs[ENHANCED_FILE] = Doc

C4_Witness ==
  /\ pc = "done"
  /\ NDiagrams >= 2
  /\ image_files = <<>>
  /\ {outcomes[k] : k \in 1..NDiagrams} = {"nonzero", "timeout"}

\* the image paths of the successful invocations among the first m, in order
RECURSIVE Successes(_, _)
Successes(outs, m) ==
  IF m = 0 THEN <<>>
  ELSE IF outs[m] = "ok" THEN Append(Successes(outs, m - 1), OrdinalImage(m))
       ELSE Successes(outs, m - 1)

\* C5: the renderer invoker has recorded exactly the image paths of the
\* invocations that exited with status zero, in processing order and without
\* their ordinal: as many as there were successes, at most one per diagram.
C5_SuccessesOnly ==
  run >= 1 =>
    LET m == Len(invoked) IN
      /\ image_files = Successes(outcomes, m)
      /\ Len(image_files) = Cardinality({k \in 1..m : outcomes[k] = "ok"})
      /\ Len(image_files) <= Len(diagram_files)

C5_Witness ==
  /\ pc = "call_cem"
  /\ Len(diagram_files) = 3
  /\ outcomes = <<"error", "ok", "ok">>
  /\ Len(image_files) = 2

\* the position of the script as a rank, and the steps a run has left at most
Rank ==
  CASE pc = "read" -> 0
    [] pc = "extract" -> 1
    [] pc = "materialize" -> 2
    [] pc = "render" -> 3
    [] pc = "call_cem" -> 4
    [] pc = "cem_entry" -> 5
    [] pc = "cem_loop" -> 6
    [] pc = "save" -> 7
    [] pc = "done" -> 8
    [] OTHER -> 0

LoopLeft ==
  CASE pc = "materialize" -> Len(diagrams) - Len(diagram_files)
    [] pc = "render" -> Len(diagram_files) - Len(invoked)
    [] pc = "cem_loop" -> Len(cem_diagrams) - cem_i
    [] OTHER -> 0

\* a document of c characters has fewer than c diagram blocks
StepsLeft == ((2 - run) * 9 + (8 - Rank)) * (Len(Doc) + 1) + LoopLeft

\* some step of the script can be taken: the guard of one of its actions holds
CanStep ==
  \/ pc \in {"read", "extract", "call_cem", "cem_entry", "save"}
  \/ pc = "materialize" /\ Len(diagram_files) <= Len(diagrams)
  \/ pc = "render" /\ Len(invoked) <= Len(diagram_files)
       /\ (run = 1 \/ Len(invoked) = Len(diagram_files) \/ Len(invoked) < Len(outcomes))
  \/ pc = "cem_loop" /\ cem_i <= Len(cem_diagrams)

C7_Inv ==
  /\ run >= 1 => invoked = SubSeq(diagram_files, 1, Len(invoked))
  /\ AfterRender => invoked = [k \in 1..NDiagrams |-> OrdinalSource(k)]
  /\ pc = "done" => ENHANCED_FILE \in DOMAIN fs
  /\ pc # "done" => CanStep

\* C7: whatever the outcomes, the files are invoked once each in ordinal
\* order and the renderer invoker returns only when all have been; no
\* outcome stops the run before the enhanced document is written, and every
\* step brings the run nearer to it (nothing is done again).
C7_EveryFileInvokedOnceAndRunCompletes ==
  /\ []C7_Inv
  /\ [][StepsLeft' < StepsLeft /\ LoopLeft' >= 0]_vars

C7_Witness ==
  /\ pc = "done"
  /\ Len(invoked) = 3
  /\ outcomes = <<"timeout", "nonzero", "error">>

\* C8 as stated: once the materializer has returned, there are exactly n body
\* files, named by the ordinals 1..n, their paths returned in extraction
\* order, the k-th holding the body of the k-th extracted diagram.
C8_FilesHoldBodies ==
  AfterMaterialize =>
    LET ms == Matches(Doc) IN
      /\ diagram_files = [k \in 1..Len(ms) |-> OrdinalSource(k)]
      /\ {p \in DOMAIN fs : p[Len(p)] = ".mmd"} = {OrdinalSource(k) : k \in 1..Len(ms)}
      /\ \A k \in 1..Len(ms) : fs[OrdinalSource(k)] = BodyOf(Doc, ms[k])

\* C8 amended: the same, the k-th file holding the body of the k-th extracted
\* diagram without its leading and trailing whitespace.
C8_FilesHoldStrippedBodies ==
  AfterMaterialize =>
    LET ms == Matches(Doc) IN
      /\ diagram_files = [k \in 1..Len(ms) |-> OrdinalSource(k)]
      /\ {p \in DOMAIN fs : p[Len(p)] = ".mmd"} = {OrdinalSource(k) : k \in 1..Len(ms)}
      /\ \A k \in 1..Len(ms) : IsStripped(BodyOf(Doc, ms[k]), fs[OrdinalSource(k)])

C8_Witness ==
  /\ pc = "render"
  /\ NDiagrams >= 2
  /\ \E k \in 1..NDiagrams : fs[OrdinalSource(k)] # BodyOf(Doc, Matches(Doc)[k])

SubItems(upto) ==
  [k \in 1..Len(Matches(cem_original)) |->
     IF k <= upto /\ k <= Len(cem_images) THEN RefText(k, cem_images[k])
     ELSE BlockText(cem_original, k)]

\* the text the substituter has returned, for m images
C6_Result ==
  pc = "returned" =>
    enhanced_content = Assembled(cem_original, SubItems(Len(cem_images)))

\* C6: with n diagram blocks and m images, the substituter returns the
\* original text with block i (0-based) exchanged for the reference to image
\* i for every i < m, the blocks from m on and all text outside the blocks as
\* they were; its arguments are not changed.
C6_SubstituterResult ==
  /\ []C6_Result
  /\ [][cem_original' = cem_original /\ cem_images' = cem_images]_vars

C6_Witness ==
  /\ pc = "returned"
  /\ Len(cem_diagrams) = 3
  /\ Len(cem_images) = 2
  /\ enhanced_content # cem_original

\* C10: at the step for diagram i with i < m, the text so far is the original
\* with exactly its first i blocks exchanged, and the first occurrence of the
\* fenced block of diagram i in it is the i-th diagram block itself; after
\* the steps, exactly the first m blocks are exchanged, once each.
C10_FirstOccurrenceIsOwnBlock ==
  pc = "cem_loop" =>
    LET ms == Matches(cem_original)
        done == IF cem_i < Len(cem_images) THEN cem_i ELSE Len(cem_images)
    IN  /\ cem_enhanced = Assembled(cem_original, SubItems(done))
        /\ (cem_i < Len(cem_diagrams) /\ cem_i < Len(cem_images)) =>
             Find(cem_enhanced, MermaidBlock(cem_diagrams[cem_i + 1]), 1)
               = ms[cem_i + 1].start + Shift(ms, SubItems(cem_i), cem_i + 1)

C10_Witness ==
  /\ pc = "cem_loop"
  /\ cem_i = 1
  /\ Len(cem_diagrams) = 3
  /\ Len(cem_images) >= 2
  /\ cem_diagrams[1] = cem_diagrams[2]
  /\ cem_diagrams[2] = cem_diagrams[3]

====
